---------------------------- MODULE Spec2Model ----------------------------
(***************************************************************************)
(* Black-Scholes option pricer (src/streamlit_app.py).                     *)
(*                                                                         *)
(* Real numbers are modelled in fixed point: the integer n stands for the  *)
(* real n / SCALE.  The transcendental functions the program imports from  *)
(* numpy and scipy (log, sqrt, exp, norm.cdf, norm.pdf) are computed here  *)
(* to about four decimal digits.  IEEE non-finite results are modelled by  *)
(* the values NaN, PosInf and NegInf, which lie outside the range of every *)
(* finite result.                                                          *)
(*                                                                         *)
(* The script is read with the block structure its author meant: line 191  *)
(* ("with col3:") stands at column 0 in the file, which Python rejects     *)
(* with an IndentationError at line 198; here it belongs to the            *)
(* "if calculate_btn:" block like the lines around it.                     *)
(***************************************************************************)
EXTENDS Integers, Sequences, FiniteSets

(***************************************************************************)
(* Fixed-point arithmetic                                                  *)
(***************************************************************************)
SCALE == 100 * 100

Abs(x) == IF x < 0 THEN -x ELSE x
Sign(x) == IF x < 0 THEN -1 ELSE IF x > 0 THEN 1 ELSE 0
Max(a, b) == IF a >= b THEN a ELSE b
Min(a, b) == IF a <= b THEN a ELSE b

\* a*b/SCALE rounded to nearest, for a, b >= 0, without leaving 32 bits
MulU(a, b) == (a * (b \div 100) + (a * (b % 100) + 50) \div 100 + 50) \div 100
Mul(a, b) == Sign(a) * Sign(b) * MulU(Abs(a), Abs(b))

\* a/b in fixed point (long division, two decimal digits at a time), a >= 0, b > 0
DivU(a, b) ==
    LET r0 == a % b
        r1 == (r0 * 100) % b
    IN  (a \div b) * SCALE + ((r0 * 100) \div b) * 100 + (r1 * 100) \div b
Div(a, b) == Sign(a) * Sign(b) * DivU(Abs(a), Abs(b))

\* IEEE non-finite values
NaN == 0 - 2000000001
PosInf == 2000000002 + 0
NegInf == 0 - 2000000002
IsFinite(x) == x \notin {NaN, PosInf, NegInf}

(***************************************************************************)
(* numpy / scipy functions on finite arguments                             *)
(***************************************************************************)
\* the largest m = lo + k * step, k in 0..15, with m * m <= n (m * m within 32 bits)
ISqrtDigit(n, lo, step) ==
    lo + step * Cardinality({k \in 1..15 : /\ lo + k * step <= 46340
                                           /\ (lo + k * step) * (lo + k * step) <= n})

\* the largest m with m * m <= n, one hexadecimal digit at a time
ISqrt(n) ==
    ISqrtDigit(n, ISqrtDigit(n, ISqrtDigit(n, ISqrtDigit(n, 0, 4096), 256), 16), 1)

\* numpy.sqrt for x >= 0
sqrtF(x) == ISqrt(x * SCALE)

RECURSIVE LogReduce(_, _)
\* x = m * 2^k with m in [1, 2): <<m, k>>
LogReduce(x, k) ==
    IF x >= 2 * SCALE THEN LogReduce(x \div 2, k + 1)
    ELSE IF x < SCALE THEN LogReduce(x * 2, k - 1)
    ELSE <<x, k>>

RECURSIVE AtanhSeries(_, _)
\* z + z^3/3 + ... + z^9/9 at ten times the precision: st = <<k, pw, acc>> is
\* the next exponent, pw = 10*z^k and the sum so far (z2 = 100*z^2)
AtanhSeries(z2, st) ==
    IF st[1] > 9 THEN st[3]
    ELSE AtanhSeries(z2, <<st[1] + 2, MulU(st[2], z2) \div 100,
                           st[3] + st[2] \div st[1]>>)

\* k*ln 2 + 2*atanh(z) from 10*z, in fixed point
LogSum(k, z) == (k * 69315 + 2 * AtanhSeries(MulU(z, z), <<1, z, 0>>) + 5) \div 10

\* ln(m * 2^k) for m in [1, 2)
LogOf(m, k) == LogSum(k, DivU((m - SCALE) * 10, m + SCALE))

\* numpy.log for x > 0: k*ln 2 + 2*atanh((m-1)/(m+1))
LogPair(mk) == LogOf(mk[1], mk[2])
logF(x) == LogPair(LogReduce(x, 0))

\* e^(-g) for g in [0, 0.1): 1 - g + g^2/2 - g^3/6 (the next term is below 5e-6)
ExpSmall(g) == SCALE - g + MulU(g, g) \div 2 - MulU(MulU(g, g), g) \div 6

\* e^(-k/10) for k = 0..9
TenthPowersOfE == <<SCALE, 9048, 8187, 7408, 6703, 6065, 5488, 4966, 4493, 4066>>

\* e^(-f) for f in [0, 1): e^(-k/10) * e^(-g) with f = k/10 + g
ExpFraction(f) == MulU(TenthPowersOfE[f \div 1000 + 1], ExpSmall(f % 1000))

\* e^(-n) for n = 0, 1, 2, ...; it vanishes in fixed point from n = 10 on
PowersOfE == <<SCALE, 3679, 1353, 498, 183, 67, 25, 9, 3, 1>>
PowE1(n) == IF n < Len(PowersOfE) THEN PowersOfE[n + 1] ELSE 0

\* e^(-a) for a >= 0
ExpNeg(a) == MulU(PowE1(a \div SCALE), ExpFraction(a % SCALE))

\* numpy.exp
expF(y) == IF y <= 0 THEN ExpNeg(-y) ELSE DivU(SCALE, ExpNeg(y))

\* scipy.stats.norm.pdf
norm_pdf(x) ==
    IF Abs(x) >= 8 * SCALE THEN 0
    ELSE MulU(3989, ExpNeg(MulU(Abs(x), Abs(x)) \div 2))

\* the coefficients b5..b1 of the polynomial in t = 1/(1 + 0.2316419 x)
CdfCoefficients == <<13303, -18213, 17815, -3566, 3194>>

RECURSIVE CdfPoly(_, _)
\* t*(b1 + t*(b2 + t*(b3 + t*(b4 + t*b5)))): st = <<n, acc>> is the index of
\* the next coefficient and the value accumulated so far
CdfPoly(t, st) ==
    IF st[1] > Len(CdfCoefficients) THEN st[2]
    ELSE CdfPoly(t, <<st[1] + 1, Mul(t, CdfCoefficients[st[1]] + st[2])>>)

\* 1 - pdf(x) * poly(t)
CdfTail(density, t) == SCALE - MulU(density, CdfPoly(t, <<1, 0>>))

\* scipy.stats.norm.cdf for x >= 0
CdfUpper(x) ==
    IF x >= 8 * SCALE THEN SCALE
    ELSE CdfTail(norm_pdf(x), DivU(SCALE, SCALE + MulU(2316, x)))

\* scipy.stats.norm.cdf
norm_cdf(x) ==
    IF x = 0 THEN SCALE \div 2
    ELSE IF x > 0 THEN CdfUpper(x) ELSE SCALE - CdfUpper(-x)


(***************************************************************************)
(* The same functions on IEEE values: numpy returns nan and +-inf with a   *)
(* RuntimeWarning instead of raising.                                      *)
(***************************************************************************)
\* numpy.log(current_price / strike), strike # 0
LogRatio(S, K) ==
    IF S = 0 THEN NegInf                        \* log(+-0.0) = -inf
    ELSE IF Sign(S) # Sign(K) THEN NaN          \* log of a negative number
    ELSE logF(DivU(Abs(S), Abs(K)))

\* numpy.sqrt
sqrt(x) == IF x < 0 THEN NaN ELSE sqrtF(x)

\* numpy.exp
exp(y) == expF(y)

\* x / y for numpy scalars: a zero divisor gives +-inf or nan, never an exception.
\* zsign is the sign of y when y is a (signed) zero.
FDiv(x, y, zsign) ==
    IF x = NaN \/ y = NaN THEN NaN
    ELSE IF y = 0 THEN
        IF x = 0 THEN NaN
        ELSE IF x = NegInf THEN (IF zsign > 0 THEN NegInf ELSE PosInf)
        ELSE IF x = PosInf THEN (IF zsign > 0 THEN PosInf ELSE NegInf)
        ELSE IF Sign(x) * zsign > 0 THEN PosInf ELSE NegInf
    ELSE IF x = NegInf THEN (IF y > 0 THEN NegInf ELSE PosInf)
    ELSE IF x = PosInf THEN (IF y > 0 THEN PosInf ELSE NegInf)
    ELSE Div(x, y)

\* -x
Neg(x) ==
    IF x = NaN THEN NaN
    ELSE IF x = PosInf THEN NegInf
    ELSE IF x = NegInf THEN PosInf
    ELSE -x

\* norm.cdf
cdf(x) ==
    IF x = NaN THEN NaN
    ELSE IF x = PosInf THEN SCALE
    ELSE IF x = NegInf THEN 0
    ELSE norm_cdf(x)

\* norm.pdf
pdf(x) ==
    IF x = NaN THEN NaN
    ELSE IF x \in {PosInf, NegInf} THEN 0
    ELSE norm_pdf(x)

(***************************************************************************)
(* class BlackScholes                                                      *)
(***************************************************************************)
InputFields ==
    {"time_to_maturity", "strike", "current_price", "volatility", "interest_rate"}
ResultFields ==
    {"call_price", "put_price", "call_delta", "put_delta", "call_gamma", "put_gamma"}

\* BlackScholes.__init__
BlackScholes(time_to_maturity, strike, current_price, volatility, interest_rate) ==
    [time_to_maturity |-> time_to_maturity,
     strike           |-> strike,
     current_price    |-> current_price,
     volatility       |-> volatility,
     interest_rate    |-> interest_rate]

\* the fields of obj named in F
Restrict(obj, F) == [a \in F |-> obj[a]]

\* volatility * sqrt(time_to_maturity), given sqrt(time_to_maturity)
VolTimes(vol, sq) == IF sq = NaN THEN NaN ELSE Mul(vol, sq)
VolSqrtT(self) == VolTimes(self.volatility, sqrt(self.time_to_maturity))

\* log(current_price / strike) + (interest_rate + 0.5 * volatility ** 2) * T
Numerator(self, lg) ==
    IF IsFinite(lg)
    THEN lg + Mul(self.interest_rate + Mul(self.volatility, self.volatility) \div 2,
                  self.time_to_maturity)
    ELSE lg

\* d1 of run()
D1(self) ==
    FDiv(Numerator(self, LogRatio(self.current_price, self.strike)),
         VolSqrtT(self), IF self.volatility < 0 THEN -1 ELSE 1)

\* d2 of run()
D2(self, d1) == IF IsFinite(d1) THEN d1 - VolSqrtT(self) ELSE d1

\* strike * exp(-(interest_rate * time_to_maturity))
DiscountedStrike(self) ==
    Mul(self.strike, exp(-Mul(self.interest_rate, self.time_to_maturity)))

\* call_price of run()
CallPrice(self, d1, d2) ==
    IF d1 = NaN THEN NaN
    ELSE Mul(self.current_price, cdf(d1)) - Mul(DiscountedStrike(self), cdf(d2))

\* put_price with the sign of d2 lost in the first term
PutPriceSameSign(self, d1, d2) ==
    IF d1 = NaN THEN NaN
    ELSE Mul(DiscountedStrike(self), cdf(d2)) - Mul(self.current_price, cdf(Neg(d1)))

\* put_price of run()
PutPrice(self, d1, d2) ==
    IF d1 = NaN THEN NaN
    ELSE Mul(DiscountedStrike(self), cdf(Neg(d2)))
           - Mul(self.current_price, cdf(Neg(d1)))

\* call_delta of run(), from norm.cdf(d1)
CallDelta(c) == c

\* put_delta of run(), from norm.cdf(d1)
PutDelta(c) == IF c = NaN THEN NaN ELSE SCALE - c

\* call_gamma of run(), from norm.pdf(d1)
CallGamma(self, density) ==
    IF density = NaN THEN NaN
    ELSE FDiv(density,
              Mul(Mul(self.strike, self.volatility), sqrt(self.time_to_maturity)),
              1)

\* the results stored with call_price assigned to strike
StoreOverInputs(self, call, put, cdelta, pdelta, gamma) ==
    [a \in DOMAIN self \cup ResultFields |->
        CASE a = "call_price" -> call
          [] a = "strike"     -> call
          [] a = "put_price"  -> put
          [] a = "call_delta" -> cdelta
          [] a = "put_delta"  -> pdelta
          [] a = "call_gamma" -> gamma
          [] a = "put_gamma"  -> gamma
          [] OTHER            -> self[a]]

\* the attributes of self after run() has stored its results
Store(self, call, put, cdelta, pdelta, gamma) ==
    [a \in DOMAIN self \cup ResultFields |->
        CASE a = "call_price" -> call
          [] a = "put_price"  -> put
          [] a = "call_delta" -> cdelta
          [] a = "put_delta"  -> pdelta
          [] a = "call_gamma" -> gamma
          [] a = "put_gamma"  -> gamma
          [] OTHER            -> self[a]]

\* the body of run() from d1 and d2 on
RunFrom(self, d1, d2, c) ==
    Store(self, CallPrice(self, d1, d2), PutPrice(self, d1, d2),
          CallDelta(c), PutDelta(c), CallGamma(self, pdf(d1)))
RunWith(self, d1) == RunFrom(self, d1, D2(self, d1), cdf(d1))

\* BlackScholes.run: with Python floats current_price / strike raises
\* ZeroDivisionError when strike is 0, before anything is stored; otherwise
\* the six results are stored as attributes of self.
run(self) ==
    IF self.strike = 0
    THEN [raised |-> "ZeroDivisionError", self |-> self]
    ELSE [raised |-> "none", self |-> RunWith(self, D1(self))]

(***************************************************************************)
(* numpy.linspace and the parameter ranges of the analysis                 *)
(***************************************************************************)
\* x / d rounded to nearest, d > 0
RoundDiv(x, d) == Sign(x) * ((Abs(x) + d \div 2) \div d)

\* linspace with the step (stop - start) / num: stop itself is left out
LinspaceNoEndpoint(start, stop, num) ==
    [k \in 1..num |-> start + RoundDiv((k - 1) * (stop - start), num)]

\* numpy.linspace(start, stop, num): num points, the last one stop itself
linspace(start, stop, num) ==
    [k \in 1..num |-> start + RoundDiv((k - 1) * (stop - start), num - 1)]

\* number of points on each axis
resolution == 50

\* current_price * 0.5 and current_price * 1.5
SpotLow(price) == Mul(price, SCALE \div 2)
SpotHigh(price) == Mul(price, SCALE + SCALE \div 2)

\* volatility * 1.5 without the min(1.0, .) clamp
VolHighUnclamped(vol) == Mul(vol, SCALE + SCALE \div 2)

\* max(0.01, volatility * 0.5) and min(1.0, volatility * 1.5)
VolLow(vol) == Max(SCALE \div 100, Mul(vol, SCALE \div 2))
VolHigh(vol) == Min(SCALE, Mul(vol, SCALE + SCALE \div 2))

\* numpy.zeros((rows, cols))
zeros(rows, cols) == [a \in 1..rows |-> [b \in 1..cols |-> 0]]

\* a name that is not bound yet
Unset == <<>>

(***************************************************************************)
(* The script: one run of streamlit_app.py from the sidebar to the plots   *)
(***************************************************************************)
VARIABLES
    pc,                 \* position in the script
    current_price, strike, time_to_maturity, volatility, interest_rate,
    calculate_btn,      \* the sidebar widgets' values
    bs_model,           \* the headline BlackScholes object
    exception,          \* the exception that ended the script run, or "none"
    spot_range, vol_range,
    call_prices, put_prices,
    i, j, bs_temp,      \* the loop indices and the cell's BlackScholes object
    runs,               \* history: number of bs_model.run() calls that returned
    task,               \* the cells' evaluations when they are run in any order
    evaluations,        \* history: number of bs_temp.run() calls so far
    writes,             \* history: writes[a][b] = number of writes to cell (a, b)
    reordered           \* history: a cell was written before an earlier one

inputs == <<current_price, strike, time_to_maturity, volatility, interest_rate,
            calculate_btn>>
grid == <<spot_range, vol_range, call_prices, put_prices, i, j, bs_temp,
          evaluations, writes, reordered>>
vars == <<pc, inputs, bs_model, exception, runs, task, grid>>

\* values the sidebar widgets can give (number_input is unbounded, the sliders
\* are bounded: maturity 0.1..5.0, volatility 0.01..1.0, rate 0.01..0.2)
UiPrices == {100 * SCALE, 80 * SCALE}
UiStrikes == {100 * SCALE, 0}
UiMaturities == {SCALE}
UiVolatilities == {SCALE \div 5}
UiRates == {SCALE \div 20}

\* the script's globals before the script has run
Fresh ==
    /\ current_price = 0 /\ strike = 0 /\ time_to_maturity = 0
    /\ volatility = 0 /\ interest_rate = 0 /\ calculate_btn = FALSE
    /\ bs_model = Unset /\ exception = "none" /\ runs = 0 /\ task = <<>>
    /\ spot_range = <<>> /\ vol_range = <<>>
    /\ call_prices = <<>> /\ put_prices = <<>>
    /\ i = 0 /\ j = 0 /\ bs_temp = Unset
    /\ evaluations = 0 /\ writes = <<>> /\ reordered = FALSE

Init == pc = "start" /\ Fresh

\* the sidebar widgets are read
Sidebar ==
    /\ pc = "start"
    /\ current_price' \in UiPrices
    /\ strike' \in UiStrikes
    /\ time_to_maturity' \in UiMaturities
    /\ volatility' \in UiVolatilities
    /\ interest_rate' \in UiRates
    /\ calculate_btn' \in BOOLEAN
    /\ pc' = "branch"
    /\ UNCHANGED <<bs_model, exception, runs, task, grid>>

\* else: st.info(...)
Info ==
    /\ pc = "branch" /\ ~calculate_btn
    /\ pc' = "end"
    /\ UNCHANGED <<inputs, bs_model, exception, runs, task, grid>>

\* bs_model = BlackScholes(...)
Construct ==
    /\ pc = "branch" /\ calculate_btn
    /\ bs_model' = BlackScholes(time_to_maturity, strike, current_price,
                                volatility, interest_rate)
    /\ pc' = "run"
    /\ UNCHANGED <<inputs, exception, runs, task, grid>>

\* run() returns, or raises and ends the script run
Finish(out) ==
    /\ bs_model' = out.self
    /\ exception' = out.raised
    /\ runs' = IF out.raised = "none" THEN runs + 1 ELSE runs
    /\ pc' = IF out.raised = "none" THEN "ranges" ELSE "raised"

\* bs_model.run()
RunHeadline ==
    /\ pc = "run"
    /\ Finish(run(bs_model))
    /\ UNCHANGED <<inputs, task, grid>>

\* spot_range, vol_range, call_prices, put_prices
Ranges ==
    /\ pc = "ranges"
    /\ spot_range' = linspace(SpotLow(current_price), SpotHigh(current_price),
                              resolution)
    /\ vol_range' = linspace(VolLow(volatility), VolHigh(volatility), resolution)
    /\ call_prices' = zeros(resolution, resolution)
    /\ put_prices' = zeros(resolution, resolution)
    /\ writes' = zeros(resolution, resolution)
    /\ i' = 1 /\ j' = 1
    /\ pc' = "loop"
    /\ UNCHANGED <<inputs, bs_model, exception, runs, task, bs_temp, evaluations,
                   reordered>>

\* the cell's object built on the headline spot instead of the cell's spot
CellModelHeadlineSpot(vi, sj) ==
    BlackScholes(time_to_maturity, strike, bs_model.current_price, vol_range[vi],
                 interest_rate)

\* bs_temp = BlackScholes(time_to_maturity, strike, spot, vol, interest_rate)
CellModel(vi, sj) ==
    BlackScholes(time_to_maturity, strike, spot_range[sj], vol_range[vi],
                 interest_rate)

\* the cell indices the wrong way round
CellIndexTransposed(vi, sj) == <<sj, vi>>

\* the cell of call_prices and put_prices written in iteration (vi, sj)
CellIndex(vi, sj) == <<vi, sj>>

\* call_prices[i, j] = bs_temp.call_price; put_prices[i, j] = bs_temp.put_price
WriteCell(obj, c) ==
    /\ bs_temp' = obj
    /\ call_prices' = [call_prices EXCEPT ![c[1]][c[2]] = obj.call_price]
    /\ put_prices' = [put_prices EXCEPT ![c[1]][c[2]] = obj.put_price]
    /\ writes' = [writes EXCEPT ![c[1]][c[2]] = @ + 1]

\* one iteration of the double loop
GridCell ==
    /\ pc = "loop"
    /\ WriteCell(run(CellModel(i, j)).self, CellIndex(i, j))
    /\ evaluations' = evaluations + 1
    /\ IF j < Len(spot_range)
       THEN i' = i /\ j' = j + 1 /\ pc' = "loop"
       ELSE IF i < Len(vol_range)
            THEN i' = i + 1 /\ j' = 1 /\ pc' = "loop"
            ELSE i' = i /\ j' = j /\ pc' = "plot"
    /\ UNCHANGED <<inputs, bs_model, exception, runs, task, spot_range, vol_range,
                   reordered>>

\* the surface plots are drawn
Plot ==
    /\ pc = "plot"
    /\ pc' = "end"
    /\ UNCHANGED <<inputs, bs_model, exception, runs, task, grid>>

\* the next interaction runs the script again from the top
Rerun ==
    /\ pc \in {"end", "raised"}
    /\ pc' = "start"
    /\ current_price' = 0 /\ strike' = 0 /\ time_to_maturity' = 0
    /\ volatility' = 0 /\ interest_rate' = 0 /\ calculate_btn' = FALSE
    /\ bs_model' = Unset /\ exception' = "none" /\ runs' = 0 /\ task' = <<>>
    /\ spot_range' = <<>> /\ vol_range' = <<>>
    /\ call_prices' = <<>> /\ put_prices' = <<>>
    /\ i' = 0 /\ j' = 0 /\ bs_temp' = Unset
    /\ evaluations' = 0 /\ writes' = <<>> /\ reordered' = FALSE

Next ==
    \/ Sidebar \/ Info \/ Construct \/ RunHeadline \/ Ranges \/ GridCell
    \/ Plot \/ Rerun

Spec == Init /\ [][Next]_vars

(***************************************************************************)
(* The class and the parameter ranges used directly, with any parameters:  *)
(* nothing in BlackScholes or in the range expressions looks at the        *)
(* widgets' bounds.                                                        *)
(***************************************************************************)
CorePrices == {0, 50 * SCALE, 100 * SCALE, 150 * SCALE}
CoreStrikes == {0 - 100 * SCALE, 0, 50 * SCALE, 100 * SCALE, 120 * SCALE}
CoreMaturities == {0 - SCALE, 0, SCALE \div 10, SCALE, 5 * SCALE}
CoreVolatilities ==
    {0, SCALE \div 200, SCALE \div 100, SCALE \div 5, SCALE, 2 * SCALE,
     5 * (SCALE \div 2)}
CoreRates == {0 - SCALE \div 20, 0, SCALE \div 20, SCALE \div 5}

\* how often run() is called again on the same object
MaxRuns == 2

\* the five parameters are given by a caller instead of the sidebar
CoreInputs ==
    /\ pc = "start"
    /\ current_price' \in CorePrices
    /\ strike' \in CoreStrikes
    /\ time_to_maturity' \in CoreMaturities
    /\ volatility' \in CoreVolatilities
    /\ interest_rate' \in CoreRates
    /\ calculate_btn' = TRUE
    /\ pc' = "branch"
    /\ UNCHANGED <<bs_model, exception, runs, task, grid>>

\* run() is called again on the object that holds the results
RunAgain ==
    /\ pc = "ranges" /\ runs < MaxRuns
    /\ Finish(run(bs_model))
    /\ UNCHANGED <<inputs, task, grid>>

NextCore == CoreInputs \/ Construct \/ RunHeadline \/ RunAgain \/ Ranges

SpecCore == Init /\ [][NextCore]_vars

(***************************************************************************)
(* The cells' evaluations run in any order.  Every iteration of the double *)
(* loop becomes a task with two steps: it constructs and runs its own      *)
(* BlackScholes object, then writes its cell of both arrays.  The steps of *)
(* different tasks interleave freely.  The axes have ParN points.          *)
(***************************************************************************)
ParN == 2

ParPrices == {100 * SCALE, 80 * SCALE}
ParVolatilities == {SCALE \div 5}

\* the state of the script when it reaches the double loop
InitPar ==
    /\ pc = "cells"
    /\ current_price \in ParPrices
    /\ strike = 100 * SCALE
    /\ time_to_maturity = SCALE
    /\ volatility \in ParVolatilities
    /\ interest_rate = SCALE \div 20
    /\ calculate_btn = TRUE
    /\ bs_model = run(BlackScholes(time_to_maturity, strike, current_price,
                                   volatility, interest_rate)).self
    /\ exception = "none" /\ runs = 1
    /\ spot_range = linspace(SpotLow(current_price), SpotHigh(current_price), ParN)
    /\ vol_range = linspace(VolLow(volatility), VolHigh(volatility), ParN)
    /\ call_prices = zeros(ParN, ParN) /\ put_prices = zeros(ParN, ParN)
    /\ writes = zeros(ParN, ParN)
    /\ i = 0 /\ j = 0 /\ bs_temp = Unset /\ evaluations = 0
    /\ reordered = FALSE
    /\ task = [a \in 1..ParN |-> [b \in 1..ParN |->
                 [phase |-> "todo", bs_temp |-> Unset]]]

\* task (a, b): bs_temp = BlackScholes(...); bs_temp.run()
Evaluate(a, b) ==
    /\ pc = "cells"
    /\ task[a][b].phase = "todo"
    /\ task' = [task EXCEPT ![a][b] =
                  [phase |-> "ready", bs_temp |-> run(CellModel(a, b)).self]]
    /\ evaluations' = evaluations + 1
    /\ UNCHANGED <<pc, inputs, bs_model, exception, runs, spot_range, vol_range,
                   call_prices, put_prices, i, j, bs_temp, writes, reordered>>

\* the two array writes of a task, from its own object
WriteOwn(obj, c) ==
    /\ call_prices' = [call_prices EXCEPT ![c[1]][c[2]] = obj.call_price]
    /\ put_prices' = [put_prices EXCEPT ![c[1]][c[2]] = obj.put_price]
    /\ writes' = [writes EXCEPT ![c[1]][c[2]] = @ + 1]

\* a cell that the sequential loop writes before (a, b) is not written yet
EarlierPending(a, b) ==
    \E a2 \in 1..ParN, b2 \in 1..ParN :
        /\ a2 < a \/ (a2 = a /\ b2 < b)
        /\ task[a2][b2].phase # "done"

\* task (a, b): call_prices[i, j] = ...; put_prices[i, j] = ...
WriteTask(a, b) ==
    /\ pc = "cells"
    /\ task[a][b].phase = "ready"
    /\ WriteOwn(task[a][b].bs_temp, CellIndex(a, b))
    /\ task' = [task EXCEPT ![a][b].phase = "done"]
    /\ reordered' = (reordered \/ EarlierPending(a, b))
    /\ UNCHANGED <<pc, inputs, bs_model, exception, runs, spot_range, vol_range,
                   i, j, bs_temp, evaluations>>

NextPar == \E a \in 1..ParN, b \in 1..ParN : Evaluate(a, b) \/ WriteTask(a, b)

SpecPar == InitPar /\ [][NextPar]_vars

(***************************************************************************)
(* Properties of BlackScholes.run                                          *)
(***************************************************************************)
\* the parameters pass the validation the specification asks for
ValidInputs ==
    current_price > 0 /\ strike > 0 /\ time_to_maturity > 0 /\ volatility > 0

\* bs_model.run() has returned: the results are attributes of bs_model
HasResults == pc \in {"ranges", "loop", "plot"}

\* C1: put-call parity.  After run() on valid parameters, call_price -
\* put_price equals current_price - strike*exp(-interest_rate*time_to_maturity)
\* (up to the two roundings of the fixed-point products).
C1_Parity ==
    (HasResults /\ ValidInputs) =>
        Abs((bs_model.call_price - bs_model.put_price)
              - (current_price - DiscountedStrike(bs_model))) <= 2

\* parity on a case with both prices positive and a negative rate
C1_Witness ==
    /\ HasResults /\ ValidInputs /\ interest_rate < 0
    /\ bs_model.call_price > SCALE /\ bs_model.put_price > SCALE

\* C2: after run() on valid parameters put_delta = call_delta - 1, so that
\* the put delta lies in [-1, 0].
C2_PutDelta ==
    (HasResults /\ ValidInputs) =>
        /\ bs_model.put_delta = bs_model.call_delta - SCALE
        /\ bs_model.put_delta >= 0 - SCALE /\ bs_model.put_delta <= 0

\* gamma as the specification gives it: pdf(d1) / (spot * volatility * sqrt(T))
SpotGamma(self) ==
    FDiv(pdf(D1(self)),
         Mul(Mul(self.current_price, self.volatility), sqrt(self.time_to_maturity)),
         1)

\* C3: after run() on valid parameters call_gamma (and put_gamma, the same
\* value) equals pdf(d1) / (current_price * volatility * sqrt(time_to_maturity)).
C3_Gamma ==
    (HasResults /\ ValidInputs) =>
        /\ bs_model.call_gamma = SpotGamma(bs_model)
        /\ bs_model.put_gamma = bs_model.call_gamma

\* C4: with an invalid parameter the evaluation ends in InvalidParameter and
\* no result is produced.
C4_Rejects ==
    (pc \in {"ranges", "loop", "raised"} /\ ~ValidInputs) =>
        /\ exception = "InvalidParameter"
        /\ DOMAIN bs_model \cap ResultFields = {}

IsAxis(axis, lo, hi, num) ==
    /\ Len(axis) = num
    /\ axis[1] = lo /\ axis[num] = hi /\ lo < hi
    /\ \A k \in 1..(num - 1) : axis[k] < axis[k + 1]
    /\ \A k \in 2..(num - 1) :
          Abs((axis[k + 1] - axis[k]) - (axis[k] - axis[k - 1])) <= 1

\* both axes are as C5 describes them
AxesIncreasing ==
    /\ IsAxis(spot_range, Mul(current_price, SCALE \div 2),
              Mul(current_price, 3 * (SCALE \div 2)), resolution)
    /\ IsAxis(vol_range, Max(SCALE \div 100, Mul(volatility, SCALE \div 2)),
              Min(SCALE, Mul(volatility, 3 * (SCALE \div 2))), resolution)

\* the volatility is one the slider can give: 0.01 .. 1.0
SliderVolatility == volatility >= SCALE \div 100 /\ volatility <= SCALE

\* C5 as stated: for every valid base both axes are strictly increasing and
\* equally spaced with resolution points between the stated endpoints.
C5_AnyBase == (pc = "loop" /\ ValidInputs) => AxesIncreasing

\* C5 amended: the same for every valid base whose volatility lies in the
\* slider's range 0.01 .. 1.0.
C5_SliderBase == (pc = "loop" /\ ValidInputs /\ SliderVolatility) => AxesIncreasing

\* the axes of a base at the lower end of the slider's range
C5_Witness ==
    /\ pc = "loop" /\ ValidInputs /\ volatility = SCALE \div 100
    /\ vol_range[1] < vol_range[resolution]

\* every volatility on the axis lies in (0, 1]
VolAxisInDomain == \A k \in 1..Len(vol_range) : vol_range[k] > 0 /\ vol_range[k] <= SCALE

\* C6 as stated: for every valid base every volatility on the axis is in (0, 1].
C6_AnyBase == (pc = "loop" /\ ValidInputs) => VolAxisInDomain

\* C6 amended: the same for every valid base whose volatility is at most 2.
C6_UpToTwo ==
    (pc = "loop" /\ ValidInputs /\ volatility <= 2 * SCALE) => VolAxisInDomain

\* an axis whose upper end the min(1.0, .) clamp has cut
C6_Witness ==
    /\ pc = "loop" /\ ValidInputs /\ volatility = SCALE
    /\ vol_range[resolution] = SCALE /\ vol_range[1] = SCALE \div 2

(***************************************************************************)
(* Properties of the double loop                                           *)
(***************************************************************************)
\* a BlackScholes object on the cell's volatility and spot and the base's
\* maturity, strike and rate, after run()
ExpectedCell(a, b) ==
    run(BlackScholes(time_to_maturity, strike, spot_range[b], vol_range[a],
                     interest_rate)).self

\* cell (a, b) of both arrays holds the prices of obj
CellHolds(a, b, obj) ==
    call_prices[a][b] = obj.call_price /\ put_prices[a][b] = obj.put_price

\* C7: when the loop has finished it has made len(vol_range)*len(spot_range)
\* evaluations, every cell has been written exactly once, and cell (a, b)
\* holds the prices for volatility vol_range[a] and spot spot_range[b].
C7_GridComplete ==
    (pc = "plot") =>
        /\ evaluations = Len(vol_range) * Len(spot_range)
        /\ \A a \in 1..Len(vol_range) : \A b \in 1..Len(spot_range) :
              writes[a][b] = 1 /\ CellHolds(a, b, ExpectedCell(a, b))

\* the loop has finished on a grid whose corners differ
C7_Witness ==
    /\ pc = "plot" /\ evaluations = resolution * resolution
    /\ call_prices[1][resolution] # call_prices[resolution][1]
    /\ call_prices[1][resolution] > 0

\* the indices of the axis values nearest to x
Nearest(axis, x) ==
    {k \in 1..Len(axis) :
        \A m \in 1..Len(axis) : Abs(axis[k] - x) <= Abs(axis[m] - x)}

\* the reference scenario: spot 100, strike 100, maturity 1, volatility 0.2,
\* rate 0.05
Reference ==
    /\ current_price = 100 * SCALE /\ strike = 100 * SCALE
    /\ time_to_maturity = SCALE /\ volatility = SCALE \div 5
    /\ interest_rate = SCALE \div 20

\* |call_prices[a][b] - bs_model.call_price| over the cells nearest to the base
NearestDiffs ==
    {Abs(call_prices[a][b] - bs_model.call_price) :
        a \in Nearest(vol_range, volatility),
        b \in Nearest(spot_range, current_price)}

\* C8 as stated: on the reference scenario the cell nearest to the base holds
\* a call price within 0.01 of the reference call price.
C8_Within1e2 ==
    (pc = "plot" /\ Reference) => \E d \in NearestDiffs : d <= SCALE \div 100

\* C8 amended: on the reference scenario every cell nearest to the base holds
\* a call price within 1.0, and not within 0.01, of the reference call price;
\* the 50-point axes do not contain the base spot or the base volatility.
C8_Within1 ==
    (pc = "plot" /\ Reference) =>
        /\ \A d \in NearestDiffs : d > SCALE \div 100 /\ d < SCALE
        /\ \A b \in 1..Len(spot_range) : spot_range[b] # current_price
        /\ \A a \in 1..Len(vol_range) : vol_range[a] # volatility

\* the grid of the reference scenario is complete
C8_Witness ==
    /\ pc = "plot" /\ Reference /\ NearestDiffs # {}
    /\ bs_model.call_price > 10 * SCALE

(***************************************************************************)
(* Properties of the cells' evaluations in any order                       *)
(***************************************************************************)
\* every task has written its cell
AllDone ==
    \A a \in 1..Len(vol_range) : \A b \in 1..Len(spot_range) :
        task[a][b].phase = "done"

\* the headline object as bs_model.run() left it
HeadlineModel ==
    run(BlackScholes(time_to_maturity, strike, current_price, volatility,
                     interest_rate)).self

=============================================================================
